---------------------------- MODULE Spec2Model ----------------------------
(***************************************************************************)
(* A model of feature_extraction/audio_preprocessing.py: the waveform      *)
(* normaliser (preprocess_audio, preprocess_audio_coverhunter), the media  *)
(* validator (validate_audio) and the harmonic path (crema,                *)
(* process_crema).                                                         *)
(*                                                                         *)
(* Every function of the module is synchronous, so each one is one action  *)
(* that takes the arguments and the answers of the external routines       *)
(* (torchaudio, ffmpeg, essentia, the chord model) from bounded sets and   *)
(* records the call and how it ended.  Return hands the result to the      *)
(* caller and makes the module idle again; the file system and the cache   *)
(* file are what persists between calls.                                   *)
(*                                                                         *)
(* Arithmetic is exact: sample values are integers in units of 1 / Unit    *)
(* and quotients are kept as numerator and denominator, so the rounding of *)
(* float32 / float64 is not part of the model.                             *)
(***************************************************************************)
EXTENDS Integers, Sequences, FiniteSets, TLC

VARIABLES
    wave_call,    \* the running/last call of the waveform normaliser
    wave_ret,     \* how that call ended
    val_call,     \* the running/last call of validate_audio
    val_ret,      \* how that call ended
    files,        \* the file system: path -> content
    ffmpeg_runs,  \* the transcodes validate_audio started in the last call
    crema_call,   \* the running/last call of crema / process_crema
    crema_ret,    \* how that call ended
    store         \* the serialized {data, labels} object at the output path

vars == <<wave_call, wave_ret, val_call, val_ret, files, ffmpeg_runs,
          crema_call, crema_ret, store>>

wave_vars == <<wave_call, wave_ret>>
val_vars == <<val_call, val_ret, files, ffmpeg_runs>>
crema_vars == <<crema_call, crema_ret, store>>

(***************************************************************************)
(* Small helpers.                                                          *)
(***************************************************************************)
Abs(x) == IF x < 0 THEN -x ELSE x

Max2(a, b) == IF a >= b THEN a ELSE b

Min2(a, b) == IF a <= b THEN a ELSE b

RECURSIVE SeqSum(_)
SeqSum(s) == IF s = <<>> THEN 0 ELSE Head(s) + SeqSum(Tail(s))

RECURSIVE SeqsOf(_, _)
\* all sequences over S of length exactly n
SeqsOf(S, n) ==
    IF n = 0 THEN {<<>>}
    ELSE {Append(s, x) : s \in SeqsOf(S, n - 1), x \in S}

SeqsUpTo(S, n) == UNION {SeqsOf(S, k) : k \in 0..n}

Zeros(n) == [i \in 1..n |-> 0]

(***************************************************************************)
(* Bounds of the model.                                                    *)
(***************************************************************************)
\* longest resampled waveform, in samples
MaxInputLen == 2
\* largest target sample rate
MaxTargetSr == 2
\* largest max_len, in seconds
MaxMaxLen == 2

(***************************************************************************)
(* Waveform normaliser.                                                    *)
(***************************************************************************)
\* Sample values are integers in units of 1 / Unit.  Unit is a multiple of
\* 1000, so the peak floor 0.001 is exact, and the sample values are even,
\* so the mean of two channels is exact.
Unit == 12 * 1000

\* The values a sample takes: silence, 0.0005 (below the peak floor), 0.001
\* (the peak floor itself) and -0.1.
SampleValues == {0, 6, 12, -1200}

ChannelCounts == {1, 2}

\* What resample(waveform) can be: a [channels, length] tensor.
ResampledWaveforms ==
    UNION {SeqsOf(SeqsOf(SampleValues, n), c) :
               n \in 0..MaxInputLen, c \in ChannelCounts}

TargetRates == 1..MaxTargetSr
MaxLens == 0..MaxMaxLen

\* waveform.size(1)
Size1(waveform) == Len(waveform[1])

\* waveform.mean(dim=0, keepdim=True)
MeanDim0(waveform) ==
    << [i \in 1..Size1(waveform) |->
           SeqSum([c \in 1..Len(waveform) |-> waveform[c][i]])
               \div Len(waveform)] >>

\* if waveform.size(0) > 1: waveform = waveform.mean(dim=0, keepdim=True)
ToMono(waveform) ==
    IF Len(waveform) > 1 THEN MeanDim0(waveform) ELSE waveform

\* mutant: pads one sample short
TrimOrPadShort(waveform, max_samples) ==
    IF Size1(waveform) >= max_samples
    THEN << SubSeq(waveform[1], 1, max_samples) >>
    ELSE << waveform[1] \o Zeros(max_samples - Size1(waveform) - 1) >>

\* the trim-or-pad of both normalisers
TrimOrPad(waveform, max_samples) ==
    IF Size1(waveform) > max_samples
    THEN << SubSeq(waveform[1], 1, max_samples) >>
    ELSE LET pad == max_samples - Size1(waveform)
         IN  << waveform[1] \o Zeros(pad) >>

\* waveform.squeeze(0)
Squeeze0(waveform) == IF Len(waveform) = 1 THEN waveform[1] ELSE waveform

\* preprocess_audio, from the resampled waveform on
preprocess_audio(resampled, target_sr, max_len) ==
    LET max_samples == target_sr * max_len
    IN  Squeeze0(TrimOrPad(ToMono(resampled), max_samples))

\* np.max(np.abs(waveform_np)) of a non-empty array
PeakAbs(w) == CHOOSE m \in {Abs(w[i]) : i \in 1..Len(w)} :
                  \A i \in 1..Len(w) : Abs(w[i]) <= m

\* 0.001, in sample units
PeakFloor == Unit \div 1000

\* mutant: divides by the peak with no floor
NormalizeNoFloor(w) ==
    [num |-> [i \in 1..Len(w) |-> w[i] * 999], den |-> PeakAbs(w) * 1000]

\* waveform_np / max(0.001, np.max(np.abs(waveform_np))) * 0.999 as the
\* exact quotients num[i] / den
Normalize(w) ==
    [num |-> [i \in 1..Len(w) |-> w[i] * 999],
     den |-> Max2(PeakFloor, PeakAbs(w)) * 1000]

NoAudio == [num |-> <<>>, den |-> 1]

\* preprocess_audio_coverhunter, from the resampled waveform to the call of
\* extract_features_cqt: np.max of an empty array raises ValueError
preprocess_audio_coverhunter(resampled, target_sr, max_len) ==
    LET max_samples == target_sr * max_len
        waveform == TrimOrPad(ToMono(resampled), max_samples)
        w == Squeeze0(waveform)
    IN  IF Len(w) = 0
        THEN [kind |-> "raise", error |-> "ValueError",
              waveform |-> w, waveform_np |-> NoAudio]
        ELSE [kind |-> "return", error |-> "",
              waveform |-> w, waveform_np |-> Normalize(w)]

WaveIdle == [fn |-> "idle", resampled |-> <<>>, target_sr |-> 0, max_len |-> 0]
WaveNoRet == [kind |-> "none", error |-> "", waveform |-> <<>>,
              waveform_np |-> NoAudio]

Call_preprocess_audio ==
    /\ wave_call.fn = "idle"
    /\ \E resampled \in ResampledWaveforms, target_sr \in TargetRates,
          max_len \in MaxLens :
          /\ wave_call' = [fn |-> "preprocess_audio", resampled |-> resampled,
                           target_sr |-> target_sr, max_len |-> max_len]
          /\ wave_ret' = [kind |-> "return", error |-> "",
                          waveform |-> preprocess_audio(resampled, target_sr, max_len),
                          waveform_np |-> NoAudio]
    /\ UNCHANGED <<val_vars, crema_vars>>

Call_preprocess_audio_coverhunter ==
    /\ wave_call.fn = "idle"
    /\ \E resampled \in ResampledWaveforms, target_sr \in TargetRates,
          max_len \in MaxLens :
          /\ wave_call' = [fn |-> "preprocess_audio_coverhunter",
                           resampled |-> resampled,
                           target_sr |-> target_sr, max_len |-> max_len]
          /\ wave_ret' = preprocess_audio_coverhunter(resampled, target_sr, max_len)
    /\ UNCHANGED <<val_vars, crema_vars>>

ReturnWave ==
    /\ wave_call.fn # "idle"
    /\ wave_call' = WaveIdle
    /\ wave_ret' = WaveNoRet
    /\ UNCHANGED <<val_vars, crema_vars>>

(***************************************************************************)
(* Media validator.                                                        *)
(***************************************************************************)
\* Paths are sequences of characters, so that os.path.splitext is computed.
P_video_mp4 == <<"v", ".", "m", "p", "4">>
P_video_wav == <<"v", ".", "w", "a", "v">>
P_noext == <<"v">>
P_hidden == <<".", "h">>
P_dotdir == <<"d", ".", "x", "/", "v">>
P_twodots == <<"a", ".", "b", ".", "c">>
P_enddot == <<"v", ".">>

\* the paths validate_audio is called with
InputPaths == {P_video_mp4, P_video_wav, P_noext, P_hidden, P_dotdir,
               P_twodots, P_enddot}

DotWav == <<".", "w", "a", "v">>

\* p.rfind(c), 1-based, 0 when c does not occur
RFind(p, c) ==
    LET hits == {i \in 1..Len(p) : p[i] = c}
    IN  IF hits = {} THEN 0 ELSE CHOOSE i \in hits : \A j \in hits : j <= i

\* os.path.splitext(p)[0]: the path up to the last dot of its last
\* component, the leading dots of that component not counted
splitext_root(p) ==
    LET sepIndex == RFind(p, "/")
        dotIndex == RFind(p, ".")
    IN  IF /\ dotIndex > sepIndex
           /\ \E k \in (sepIndex + 1)..(dotIndex - 1) : p[k] # "."
        THEN SubSeq(p, 1, dotIndex - 1)
        ELSE p

\* output_filepath = os.path.splitext(filepath)[0] + ".wav"
OutputPath(filepath) == splitext_root(filepath) \o DotWav

AllPaths == InputPaths \cup {OutputPath(p) : p \in InputPaths}

\* 1024 * 1024 bytes
MiB == 1024 * 1024

\* A metadata field of the probe: absent, not a number, or a number.
\* size is in bytes, duration in milliseconds.
Missing == [tag |-> "missing", val |-> 0]
Malformed == [tag |-> "malformed", val |-> 0]
Num(n) == [tag |-> "num", val |-> n]

SizeFields == {Missing, Malformed, Num(100 * MiB), Num(100 * MiB + 1),
               Num(100 * MiB + MiB \div 2)}
DurationFields == {Missing, Malformed, Num(1200 * 1000), Num(1200 * 1000 + 1),
                   Num(21 * 60 * 1000)}

\* the codec_type of each stream; "none" is a stream without the key
StreamLists == {<<>>, <<"video">>, <<"audio">>, <<"video", "audio">>,
                <<"video", "none">>}

\* what ffmpeg.probe(filepath) answers: ffmpeg.Error, or the metadata
ProbeFailed == [ok |-> FALSE, duration |-> Missing, size |-> Missing,
                streams |-> <<>>]
Probes == {ProbeFailed} \cup
          [ok : {TRUE}, duration : DurationFields, size : SizeFields,
           streams : StreamLists]

\* how ffmpeg's run ends: the file written, or ffmpeg.Error with the output
\* path untouched or holding a partial file
RunOutcomes == {"ok", "error_untouched", "error_partial"}

\* file contents
Absent == [kind |-> "absent", ac |-> 0, ar |-> 0]
Original == [kind |-> "original", ac |-> 0, ar |-> 0]
Partial == [kind |-> "partial", ac |-> 0, ar |-> 0]

NonePath == [some |-> FALSE, v |-> <<>>]
SomePath(p) == [some |-> TRUE, v |-> p]
NoneMsg == [some |-> FALSE, v |-> ""]
SomeMsg(m) == [some |-> TRUE, v |-> m]

Returned(path, msg) == [kind |-> "return", error |-> "", path |-> path, msg |-> msg]
Raised(e) == [kind |-> "raise", error |-> e, path |-> NonePath, msg |-> NoneMsg]

\* float(format_info.get(key, 0)) raises ValueError on a malformed field
FloatRaises(field) == field.tag = "malformed"
FloatOf(field) == IF field.tag = "num" THEN field.val ELSE 0

\* mutant: rejects a file of exactly 100 MB
TooLargeInclusive(bytes) == bytes >= 100 * MiB

\* size = float(...) / (1024 * 1024); size > 100
TooLarge(bytes) == bytes > 100 * MiB

\* duration > 20 * 60, the duration in milliseconds
TooLong(ms) == ms > 20 * 60 * 1000

\* [stream for stream in streams if stream.get("codec_type") == "audio"]
AudioStreams(streams) == SelectSeq(streams, LAMBDA t : t = "audio")

\* mutant: only the first stream is looked at
HasAudioFirstStream(streams) == Len(streams) > 0 /\ streams[1] = "audio"

HasAudio(streams) == Len(AudioStreams(streams)) > 0

\* ffmpeg.input(filepath).output(output_filepath, format="wav", ac=1,
\*     ar="16000").run(overwrite_output=True)
TranscodeRun(filepath, output_filepath, outcome) ==
    [input |-> filepath, output |-> output_filepath, format |-> "wav",
     ac |-> 1, ar |-> 16000, overwrite_output |-> TRUE, outcome |-> outcome]

\* the file system after a run of ffmpeg
FilesAfterRun(fsys, run) ==
    CASE run.outcome = "ok" ->
            [fsys EXCEPT ![run.output] =
                 [kind |-> run.format, ac |-> run.ac, ar |-> run.ar]]
      [] run.outcome = "error_partial" ->
            [fsys EXCEPT ![run.output] = Partial]
      [] OTHER -> fsys

\* validate_audio: the result, the transcodes run and the file system left
validate_audio(filepath, probe, outcome, fsys) ==
    IF ~probe.ok
    THEN [ret |-> Raised("InvalidMediaFileError"), runs |-> <<>>, files |-> fsys]
    ELSE IF FloatRaises(probe.duration) \/ FloatRaises(probe.size)
    THEN [ret |-> Raised("ValueError"), runs |-> <<>>, files |-> fsys]
    ELSE IF TooLarge(FloatOf(probe.size))
    THEN [ret |-> Returned(NonePath, SomeMsg("File is too large (over 100MB).")),
          runs |-> <<>>, files |-> fsys]
    ELSE IF TooLong(FloatOf(probe.duration))
    THEN [ret |-> Returned(NonePath, SomeMsg("File is too long (over 20 minutes).")),
          runs |-> <<>>, files |-> fsys]
    ELSE IF HasAudio(probe.streams)
    THEN [ret |-> Returned(SomePath(filepath), NoneMsg), runs |-> <<>>,
          files |-> fsys]
    ELSE LET output_filepath == OutputPath(filepath)
             run == TranscodeRun(filepath, output_filepath, outcome)
         IN  [ret |-> IF outcome = "ok"
                      THEN Returned(SomePath(output_filepath), NoneMsg)
                      ELSE Raised("ffmpeg.Error"),
              runs |-> <<run>>,
              files |-> FilesAfterRun(fsys, run)]

\* whether a call with this probe gets as far as the transcode
ReachesTranscode(probe) ==
    /\ probe.ok
    /\ ~FloatRaises(probe.duration) /\ ~FloatRaises(probe.size)
    /\ ~TooLarge(FloatOf(probe.size)) /\ ~TooLong(FloatOf(probe.duration))
    /\ ~HasAudio(probe.streams)

ValIdle == [fn |-> "idle", filepath |-> <<>>, probe |-> ProbeFailed,
            before |-> [p \in AllPaths |-> Absent]]
ValNoRet == [kind |-> "none", error |-> "", path |-> NonePath, msg |-> NoneMsg]

\* The input files exist; the paths that are only outputs hold no file or
\* an older file.
InitFiles == {[p \in AllPaths |-> IF p \in InputPaths THEN Original ELSE c] :
                 c \in {Absent, Original}}

Call_validate_audio ==
    /\ val_call.fn = "idle"
    /\ \E filepath \in InputPaths, probe \in Probes, outcome \in RunOutcomes :
          LET r == validate_audio(filepath, probe, outcome, files)
          IN  /\ outcome = "ok" \/ ReachesTranscode(probe)
              /\ val_call' = [fn |-> "validate_audio", filepath |-> filepath,
                              probe |-> probe, before |-> files]
              /\ val_ret' = r.ret
              /\ ffmpeg_runs' = r.runs
              /\ files' = r.files
    /\ UNCHANGED <<wave_vars, crema_vars>>

ReturnValidate ==
    /\ val_call.fn # "idle"
    /\ val_call' = ValIdle
    /\ val_ret' = ValNoRet
    /\ ffmpeg_runs' = <<>>
    /\ UNCHANGED <<files, wave_vars, crema_vars>>

(***************************************************************************)
(* Harmonic feature extractor and cache accumulator.                       *)
(***************************************************************************)
\* most target frames of an audio vector
MaxWins == 17
\* most native frames of the chord model
MaxNative == 3

\* columns of the chord model's chord_pitch output
PitchClasses == 12

\* the sample rate the native grid's scale refers to
RefRate == 44100
\* samples per native frame at RefRate
NativeHop == 4096
\* the defaults of crema: fs and hop_length
DefaultFs == 44100
DefaultHop == 512
\* the stride of process_crema's frame selection
Stride == 8
\* rows process_crema keeps of the doubled tensor
KeptRows == 23

\* One native frame's pitch-class vector; v tells the frames apart.
Row(v) == [p \in 1..PitchClasses |-> 100 * v + p]
Rows == {Row(v) : v \in 1..3}

\* what model.outputs(...)["chord_pitch"] can be
ChordPitches == SeqsUpTo(Rows, MaxNative)

SampleRates == {DefaultFs, 16000}
HopLengths == {DefaultHop, NativeHop, 2 * NativeHop}

\* audio_vector.size for a hop length: whole hops and one sample less, and
\* the five seconds at 44100 Hz
AudioSizes(hop_length) ==
    {q * hop_length + r : q \in 0..MaxWins, r \in {0, hop_length - 1}}
        \cup (IF hop_length = DefaultHop THEN {5 * 44100} ELSE {})

RECURSIVE GCD(_, _)
GCD(a, b) == IF b = 0 THEN a ELSE GCD(b, a % b)

\* fac = (float(fs) / 44100.0) * 4096.0 / hop_length as the exact quotient
\* FacNum / FacDen in lowest terms: native frame i is at time
\* i * FacNum / FacDen
FacNum(fs, hop_length) ==
    (fs * NativeHop) \div GCD(fs * NativeHop, RefRate * hop_length)
FacDen(fs, hop_length) ==
    (RefRate * hop_length) \div GCD(fs * NativeHop, RefRate * hop_length)

\* mutant: one target frame more than the whole hops
NwinsCeil(size, hop_length) == (size + hop_length - 1) \div hop_length

\* nwins = int(np.floor(float(audio_vector.size) / hop_length))
Nwins(size, hop_length) == size \div hop_length

\* mutant: kind="previous", the last native frame at or before the time
PreviousIndex(n, fs, hop_length, j) ==
    Cardinality({k \in 1..(n - 1) :
                    k * FacNum(fs, hop_length) <= j * FacDen(fs, hop_length)})

\* interp1d(kind="nearest", fill_value="extrapolate") at time j: the native
\* index is the number of midpoints (times_orig[k] + times_orig[k+1]) / 2
\* strictly below j (searchsorted, side "left"), clipped to 0 .. n - 1
NearestIndex(n, fs, hop_length, j) ==
    LET below == {k \in 0..(n - 2) :
                     (2 * k + 1) * FacNum(fs, hop_length)
                         < 2 * j * FacDen(fs, hop_length)}
    IN  Max2(0, Min2(n - 1, Cardinality(below)))

\* interp1d refuses x and y of different lengths along the axis
TimesOrigMatch(times_orig_len, chord_pitch) ==
    times_orig_len = Len(chord_pitch)

\* crema, from the decoded audio vector and the chord model's outputs on
crema(size, fs, hop_length, chord_pitch, chord_bass_len) ==
    LET times_orig_len == chord_bass_len
        nwins == Nwins(size, hop_length)
        n == Len(chord_pitch)
    IN  IF ~TimesOrigMatch(times_orig_len, chord_pitch) \/ times_orig_len < 1
        THEN [kind |-> "raise", error |-> "ValueError", value |-> <<>>,
              times_orig_len |-> times_orig_len]
        ELSE [kind |-> "return", error |-> "",
              value |-> [j \in 1..nwins |->
                            chord_pitch[NearestIndex(n, fs, hop_length, j - 1) + 1]],
              times_orig_len |-> times_orig_len]

\* mutant: only the whole strides are kept
IdxsWhole(n) == [c \in 1..(n \div Stride) |-> (c - 1) * Stride]

\* np.arange(0, n, 8): 0, 8, 16, ... below n
Idxs(n) == [c \in 1..((n + Stride - 1) \div Stride) |-> (c - 1) * Stride]

\* temp_crema[idxs].T
SelectT(temp_crema, idxs) ==
    [p \in 1..PitchClasses |->
        [c \in 1..Len(idxs) |-> temp_crema[idxs[c] + 1][p]]]

\* torch.cat((t, t))[:23].unsqueeze(0)
CatKeep(t) == << SubSeq(t \o t, 1, KeptRows) >>

StoreAbsent == [exists |-> FALSE, data |-> <<>>, labels |-> <<>>]
StorePair(data, labels) == [exists |-> TRUE, data |-> data, labels |-> labels]

\* mutant: the accumulator appends the tensor and its label and saves
StoreAfterAppend(st, tensor) ==
    StorePair(Append(st.data, tensor), Append(st.labels, "label"))

\* process_crema writes nothing to the output path
StoreAfter(st, tensor) == st

\* process_crema: the lists it loads, then crema with its defaults, then the
\* tensor
process_crema(size, chord_pitch, chord_bass_len, st) ==
    LET data_list == IF ~st.exists THEN <<>> ELSE st.data
        labels_list == IF ~st.exists THEN <<>> ELSE st.labels
        c == crema(size, DefaultFs, DefaultHop, chord_pitch, chord_bass_len)
    IN  IF c.kind = "raise"
        THEN [kind |-> "raise", error |-> c.error, value |-> <<>>,
              temp_crema |-> <<>>, data_list |-> data_list,
              labels_list |-> labels_list, store |-> st]
        ELSE LET temp_crema == c.value
                 idxs == Idxs(Len(temp_crema))
                 tensor == CatKeep(SelectT(temp_crema, idxs))
             IN  [kind |-> "return", error |-> "", value |-> tensor,
                  temp_crema |-> temp_crema, data_list |-> data_list,
                  labels_list |-> labels_list, store |-> StoreAfter(st, tensor)]

CremaIdle == [fn |-> "idle", size |-> 0, fs |-> 0, hop_length |-> 1,
              chord_pitch |-> <<>>, chord_bass_len |-> 0]
CremaNoRet == [kind |-> "none", error |-> "", value |-> <<>>,
               times_orig_len |-> 0, temp_crema |-> <<>>,
               data_list |-> <<>>, labels_list |-> <<>>]

\* a tensor a caller saved earlier
SavedTensor == << [r \in 1..KeptRows |-> <<7>>] >>

\* The output path holds no file, an empty pair or a pair with one entry.
InitStores == {StoreAbsent, StorePair(<<>>, <<>>),
               StorePair(<<SavedTensor>>, <<"song">>)}

Call_crema ==
    /\ crema_call.fn = "idle"
    /\ \E fs \in SampleRates, hop_length \in HopLengths,
          chord_pitch \in ChordPitches :
       \E size \in AudioSizes(hop_length),
          chord_bass_len \in {Len(chord_pitch), Len(chord_pitch) + 1} :
          LET r == crema(size, fs, hop_length, chord_pitch, chord_bass_len)
          IN  /\ crema_call' = [fn |-> "crema", size |-> size, fs |-> fs,
                                hop_length |-> hop_length,
                                chord_pitch |-> chord_pitch,
                                chord_bass_len |-> chord_bass_len]
              /\ crema_ret' = [kind |-> r.kind, error |-> r.error,
                               value |-> r.value,
                               times_orig_len |-> r.times_orig_len,
                               temp_crema |-> <<>>, data_list |-> <<>>,
                               labels_list |-> <<>>]
    /\ UNCHANGED <<store, wave_vars, val_vars>>

Call_process_crema ==
    /\ crema_call.fn = "idle"
    /\ \E chord_pitch \in ChordPitches :
       \E size \in AudioSizes(DefaultHop),
          chord_bass_len \in {Len(chord_pitch), Len(chord_pitch) + 1} :
          LET r == process_crema(size, chord_pitch, chord_bass_len, store)
          IN  /\ crema_call' = [fn |-> "process_crema", size |-> size,
                                fs |-> DefaultFs, hop_length |-> DefaultHop,
                                chord_pitch |-> chord_pitch,
                                chord_bass_len |-> chord_bass_len]
              /\ crema_ret' = [kind |-> r.kind, error |-> r.error,
                               value |-> r.value,
                               times_orig_len |-> chord_bass_len,
                               temp_crema |-> r.temp_crema,
                               data_list |-> r.data_list,
                               labels_list |-> r.labels_list]
              /\ store' = r.store
    /\ UNCHANGED <<wave_vars, val_vars>>

ReturnCrema ==
    /\ crema_call.fn # "idle"
    /\ crema_call' = CremaIdle
    /\ crema_ret' = CremaNoRet
    /\ UNCHANGED <<store, wave_vars, val_vars>>

(***************************************************************************)
(* Specifications: one per component, the other components idle.           *)
(***************************************************************************)
NextWave ==
    \/ Call_preprocess_audio
    \/ Call_preprocess_audio_coverhunter
    \/ ReturnWave

InitWaveSpec ==
    /\ wave_call = WaveIdle
    /\ wave_ret = WaveNoRet
    /\ val_call = ValIdle
    /\ val_ret = ValNoRet
    /\ files = [p \in AllPaths |-> Absent]
    /\ ffmpeg_runs = <<>>
    /\ crema_call = CremaIdle
    /\ crema_ret = CremaNoRet
    /\ store = StoreAbsent

SpecWave == InitWaveSpec /\ [][NextWave]_vars

NextValidate ==
    \/ Call_validate_audio
    \/ ReturnValidate

InitValidateSpec ==
    /\ val_call = ValIdle
    /\ val_ret = ValNoRet
    /\ files \in InitFiles
    /\ ffmpeg_runs = <<>>
    /\ wave_call = WaveIdle
    /\ wave_ret = WaveNoRet
    /\ crema_call = CremaIdle
    /\ crema_ret = CremaNoRet
    /\ store = StoreAbsent

SpecValidate == InitValidateSpec /\ [][NextValidate]_vars

NextCrema ==
    \/ Call_crema
    \/ Call_process_crema
    \/ ReturnCrema

InitCremaSpec ==
    /\ crema_call = CremaIdle
    /\ crema_ret = CremaNoRet
    /\ store \in InitStores
    /\ wave_call = WaveIdle
    /\ wave_ret = WaveNoRet
    /\ val_call = ValIdle
    /\ val_ret = ValNoRet
    /\ files = [p \in AllPaths |-> Absent]
    /\ ffmpeg_runs = <<>>

SpecCrema == InitCremaSpec /\ [][NextCrema]_vars

(***************************************************************************)
(* Claims about the waveform normaliser (under SpecWave).                  *)
(***************************************************************************)
WaveDone == wave_call.fn \in {"preprocess_audio", "preprocess_audio_coverhunter"}

\* C1: for every resampled waveform (one or more channels, any length,
\* length max_samples and length 0 included) and every target_sr and
\* max_len, preprocess_audio returns a one-dimensional sequence of exactly
\* max_samples = target_sr * max_len samples; sample i is the channel mean
\* of the resampled input at i for every i below min(input length,
\* max_samples) and 0 from the input length up to max_samples.  The waveform
\* preprocess_audio_coverhunter has before the amplitude normalisation
\* satisfies the same.
C1_FixedLengthPrefixAndZeroTail ==
    WaveDone =>
        LET inp == wave_call.resampled
            out == wave_ret.waveform
            nch == Len(inp)
            n == Len(inp[1])
            max_samples == wave_call.target_sr * wave_call.max_len
        IN  /\ Len(out) = max_samples
            /\ \A i \in 1..max_samples : out[i] \in Int
            /\ \A i \in 1..Min2(n, max_samples) :
                   out[i] * nch = SeqSum([c \in 1..nch |-> inp[c][i]])
            /\ \A i \in (n + 1)..max_samples : out[i] = 0

\* C1 witness: a stereo input shorter than max_samples, with channels that
\* differ, has been mixed and padded by preprocess_audio.
C1_Witness ==
    /\ wave_call.fn = "preprocess_audio"
    /\ Len(wave_call.resampled) = 2
    /\ Len(wave_call.resampled[1]) = 1
    /\ wave_call.resampled[1][1] # wave_call.resampled[2][1]
    /\ wave_call.target_sr * wave_call.max_len = 2
    /\ wave_ret.kind = "return"

\* C6: for every waveform that reaches the amplitude normalisation of
\* preprocess_audio_coverhunter, the waveform passed to the constant-Q
\* transform has peak absolute value at most 0.999; the peak is exactly
\* 0.999 when the input peak is at least 0.001; the input is scaled by
\* 0.999 / 0.001 when its peak is below 0.001; an all-zero waveform yields
\* an all-zero waveform, and the divisor is never zero.  (The call ends in
\* an error only for the empty waveform of max_samples = 0, which has no
\* peak: the error is np.max's ValueError, not a division by zero.)
C6_PeakAtMost0999 ==
    wave_call.fn = "preprocess_audio_coverhunter" =>
        LET w == wave_ret.waveform
            o == wave_ret.waveform_np
            n == Len(w)
        IN  /\ wave_ret.kind = "raise" <=> n = 0
            /\ wave_ret.kind = "raise" => wave_ret.error = "ValueError"
            /\ wave_ret.kind = "return" =>
                /\ o.den > 0
                /\ Len(o.num) = n
                /\ \A i \in 1..n : Abs(o.num[i]) * 1000 <= 999 * o.den
                /\ (\E i \in 1..n : Abs(w[i]) >= PeakFloor) =>
                       \E i \in 1..n : Abs(o.num[i]) * 1000 = 999 * o.den
                /\ (\A i \in 1..n : Abs(w[i]) < PeakFloor) =>
                       \A i \in 1..n : o.num[i] * Unit = 999 * w[i] * o.den
                /\ (\A i \in 1..n : w[i] = 0) =>
                       \A i \in 1..n : o.num[i] = 0

\* C6 witness: a waveform whose peak is below 0.001 and not zero has been
\* normalised.
C6_Witness ==
    /\ wave_call.fn = "preprocess_audio_coverhunter"
    /\ wave_ret.kind = "return"
    /\ \A i \in 1..Len(wave_ret.waveform) : Abs(wave_ret.waveform[i]) < PeakFloor
    /\ \E i \in 1..Len(wave_ret.waveform) : wave_ret.waveform[i] # 0

(***************************************************************************)
(* Claims about validate_audio (under SpecValidate).                       *)
(***************************************************************************)
ValDone == val_call.fn = "validate_audio"

\* the size the probe reports is over 100 * 1024 * 1024 bytes
SizeOver == val_call.probe.size.tag = "num" /\ val_call.probe.size.val > 104857600

\* the size is a number within the limit, or absent (read as 0)
SizeWithin == val_call.probe.size.tag # "malformed" /\ ~SizeOver

\* the duration the probe reports is over 1200 seconds
DurationOver ==
    val_call.probe.duration.tag = "num" /\ val_call.probe.duration.val > 1200000

DurationWithin == val_call.probe.duration.tag # "malformed" /\ ~DurationOver

NothingWritten == ffmpeg_runs = <<>> /\ files = val_call.before

\* C2 as stated: for every probeable file validate_audio returns exactly
\* (None, "File is too large (over 100MB)") when the size is over 100 MB and
\* exactly (None, "File is too long (over 20 minutes)") when the size is
\* within the limit and the duration is over 1200 seconds; no transcode is
\* started and no file is written.
C2_Original ==
    (ValDone /\ val_call.probe.ok) =>
        /\ SizeOver =>
              /\ val_ret = Returned(NonePath, SomeMsg("File is too large (over 100MB)"))
              /\ NothingWritten
        /\ (SizeWithin /\ DurationOver) =>
              /\ val_ret = Returned(NonePath, SomeMsg("File is too long (over 20 minutes)"))
              /\ NothingWritten

\* C2 amended: for every probeable file whose size is over 100 * 1024 * 1024
\* bytes validate_audio returns exactly
\* (None, "File is too large (over 100MB).") -- the message ends in a full
\* stop -- unless the duration field is not a number, and then it raises
\* ValueError; when the size is within the limit (or absent) and the
\* duration is over 1200 seconds it returns exactly
\* (None, "File is too long (over 20 minutes)."); in each of these cases no
\* transcode is started and no file is written.
C2_RejectionMessages ==
    (ValDone /\ val_call.probe.ok) =>
        /\ SizeOver =>
              /\ IF val_call.probe.duration.tag = "malformed"
                 THEN val_ret = Raised("ValueError")
                 ELSE val_ret = Returned(NonePath,
                                         SomeMsg("File is too large (over 100MB)."))
              /\ NothingWritten
        /\ (SizeWithin /\ DurationOver) =>
              /\ val_ret = Returned(NonePath,
                                    SomeMsg("File is too long (over 20 minutes)."))
              /\ NothingWritten

\* C2 witness: a file one byte over the limit, of a duration within the
\* limit, has been rejected as too large.
C2_Witness ==
    /\ ValDone
    /\ val_call.probe.ok
    /\ val_call.probe.size = Num(104857601)
    /\ val_call.probe.duration = Num(1200000)
    /\ val_ret.kind = "return"
    /\ ~val_ret.path.some

\* C3: validate_audio raises InvalidMediaFileError when the probe fails, and
\* a failed probe is the only path that ends with a raised error: with a
\* probe that succeeds (limits exceeded or not, audio stream or not, the
\* transcode succeeding or failing, metadata fields missing or malformed)
\* the call returns a pair.
C3_OnlyProbeFailureRaises ==
    ValDone =>
        IF val_call.probe.ok
        THEN val_ret.kind = "return"
        ELSE val_ret = Raised("InvalidMediaFileError")

\* C4: for every probeable file within the size and duration limits with at
\* least one stream of codec_type "audio" (video streams or not),
\* validate_audio returns (filepath, None), filepath being its argument,
\* starts no transcode and creates, overwrites or changes no file.
C4_AudioFileReturnedUnchanged ==
    (/\ ValDone
     /\ val_call.probe.ok
     /\ SizeWithin
     /\ DurationWithin
     /\ \E k \in 1..Len(val_call.probe.streams) :
            val_call.probe.streams[k] = "audio") =>
        /\ val_ret = Returned(SomePath(val_call.filepath), NoneMsg)
        /\ NothingWritten

\* C4 witness: a file with a video stream and then an audio stream has been
\* returned as it was, with older files lying at the output paths.
C4_Witness ==
    /\ ValDone
    /\ val_call.probe.ok
    /\ val_call.probe.streams = <<"video", "audio">>
    /\ val_call.filepath = P_video_mp4
    /\ val_ret.kind = "return"
    /\ val_ret.path.some
    /\ files[P_video_wav] = Original

\* position k of path p holds the dot that starts p's extension: no dot or
\* separator follows it, and its path component has a character that is not
\* a dot before it
IsExtDot(p, k) ==
    /\ p[k] = "."
    /\ \A m \in (k + 1)..Len(p) : p[m] \notin {".", "/"}
    /\ \E m \in 1..(k - 1) :
          /\ p[m] \notin {".", "/"}
          /\ \A q \in m..(k - 1) : p[q] # "/"

\* p with its extension (if it has one) replaced by ".wav"
WithWavExtension(p) ==
    IF \E k \in 1..Len(p) : IsExtDot(p, k)
    THEN SubSeq(p, 1, (CHOOSE k \in 1..Len(p) : IsExtDot(p, k)) - 1) \o DotWav
    ELSE p \o DotWav

\* C5: for every probeable file within the size and duration limits with no
\* audio stream, validate_audio runs exactly one transcode to single-channel
\* 16 kHz WAV whose output path is the input path with its extension
\* replaced by ".wav" (the input path itself when it ends in ".wav"),
\* overwrites any file at that path, and returns (that path, None).
C5_VideoTranscodedToWav ==
    (/\ ValDone
     /\ val_call.probe.ok
     /\ SizeWithin
     /\ DurationWithin
     /\ \A k \in 1..Len(val_call.probe.streams) :
            val_call.probe.streams[k] # "audio") =>
        LET out == WithWavExtension(val_call.filepath)
        IN  /\ Len(ffmpeg_runs) = 1
            /\ ffmpeg_runs[1].input = val_call.filepath
            /\ ffmpeg_runs[1].output = out
            /\ ffmpeg_runs[1].format = "wav"
            /\ ffmpeg_runs[1].ac = 1
            /\ ffmpeg_runs[1].ar = 16000
            /\ ffmpeg_runs[1].overwrite_output
            /\ files = [val_call.before EXCEPT
                           ![out] = [kind |-> "wav", ac |-> 1, ar |-> 16000]]
            /\ val_ret = Returned(SomePath(out), NoneMsg)

(***************************************************************************)
(* Claims about crema and process_crema (under SpecCrema).                 *)
(***************************************************************************)
CremaReturned == crema_call.fn = "crema" /\ crema_ret.kind = "return"

\* C7: every extraction by crema that completes, with waveform length L, hop
\* length h and any number of native frames, has exactly floor(L / h) rows
\* of exactly 12 columns (430 rows for L = 5 * 44100 and h = 512), and its
\* native time axis has one entry per row of chord_pitch.
C7_TargetFrameCount ==
    CremaReturned =>
        LET rows == Len(crema_ret.value)
            L == crema_call.size
            h == crema_call.hop_length
        IN  /\ rows * h <= L
            /\ L < (rows + 1) * h
            /\ \A j \in 1..rows : Len(crema_ret.value[j]) = 12
            /\ (L = 220500 /\ h = 512) => rows = 430
            /\ crema_ret.times_orig_len = Len(crema_call.chord_pitch)

\* C7 witness: five seconds at 44100 Hz with hop length 512 gave 430 rows.
C7_Witness ==
    /\ CremaReturned
    /\ crema_call.size = 220500
    /\ crema_call.hop_length = 512
    /\ Len(crema_ret.value) = 430

ProcessReturned == crema_call.fn = "process_crema" /\ crema_ret.kind = "return"

\* the tensor is [1, 23, cols]
HasShape(tensor, cols) ==
    /\ Len(tensor) = 1
    /\ Len(tensor[1]) = 23
    /\ \A r \in 1..23 : Len(tensor[1][r]) = cols

\* C8 as stated: for a harmonic feature sequence of num_target_frames rows
\* (multiples of 8 or not) process_crema returns a tensor of shape
\* [1, 23, floor(num_target_frames / 8)].
C8_Original ==
    ProcessReturned =>
        HasShape(crema_ret.value, Len(crema_ret.temp_crema) \div 8)

\* C8 amended: for a harmonic feature sequence of num_target_frames rows
\* (multiples of 8 or not) process_crema returns a tensor of shape
\* [1, 23, ceil(num_target_frames / 8)]: column c is frame 8 * c of the
\* sequence (every 8th frame from frame 0 on, a last partial stride
\* included), row r is pitch class r mod 12 (the 12 rows of the transpose,
\* then the first 11 of them again).
C8_ShapeAndContent ==
    ProcessReturned =>
        LET T == Len(crema_ret.temp_crema)
            t == crema_ret.value
            cols == Len(t[1][1])
        IN  /\ HasShape(t, cols)
            /\ 8 * cols >= T
            /\ 8 * (cols - 1) < T
            /\ \A r \in 1..23 : \A c \in 1..cols :
                   t[1][r][c] = crema_ret.temp_crema[8 * (c - 1) + 1][((r - 1) % 12) + 1]

\* C8 witness: a sequence of 430 frames has been turned into 54 columns.
C8_Witness ==
    /\ ProcessReturned
    /\ Len(crema_ret.temp_crema) = 430
    /\ Len(crema_ret.value[1][1]) = 54

ScaleNum(sample_rate) == (sample_rate \div 100) * 4096
ScaleDen(hop_length) == 441 * hop_length

\* distance between native frame i and target frame j, times ScaleDen
Distance(i, j) ==
    Abs(i * ScaleNum(crema_call.fs) - j * ScaleDen(crema_call.hop_length))

\* C10: with native frame i at time scale * i, every target frame j takes the
\* vector of a native frame whose time is nearest to j, and every target
\* frame beyond the last native frame's time takes the last native frame's
\* vector; every output row is one native row, not a blend.
C10_NearestNeighbour ==
    CremaReturned =>
        LET n == Len(crema_call.chord_pitch)
            rows == Len(crema_ret.value)
        IN  /\ crema_call.fs % 100 = 0
            /\ \A j \in 0..(rows - 1) :
                  /\ \E i \in 0..(n - 1) :
                        /\ \A k \in 0..(n - 1) : Distance(i, j) <= Distance(k, j)
                        /\ crema_ret.value[j + 1] = crema_call.chord_pitch[i + 1]
                  /\ j * ScaleDen(crema_call.hop_length)
                         > (n - 1) * ScaleNum(crema_call.fs) =>
                        crema_ret.value[j + 1] = crema_call.chord_pitch[n]

\* C10 witness: three different native frames at times 0, 8 and 16; the
\* target frame at time 429 took the last one, the one at time 5 the
\* second, and the one at time 4, as near to the first as to the second,
\* the first.
C10_Witness ==
    /\ CremaReturned
    /\ crema_call.fs = 44100
    /\ crema_call.hop_length = 512
    /\ crema_call.chord_pitch = <<Row(1), Row(2), Row(3)>>
    /\ Len(crema_ret.value) = 430
    /\ crema_ret.value[429 + 1] = Row(3)
    /\ crema_ret.value[5 + 1] = Row(2)
    /\ crema_ret.value[4 + 1] = Row(1)

=============================================================================
